---- MODULE Spec2Model ----
(***************************************************************************)
(* The Flappy Bird page component (src/src/app/page.js; the same logic is  *)
(* in src/unnamed/part_001) as a state machine.                            *)
(*                                                                         *)
(* The state is the component's useState cells plus localStorage, the      *)
(* interval registered by the game-loop effect, and whether the passive    *)
(* effects (useEffect bodies and cleanups) of the latest commit are still  *)
(* waiting to run.  Every state of the model is a committed render.        *)
(*                                                                         *)
(* Scheduling.  An event handler or interval callback runs to completion   *)
(* and its state updates are rendered and committed as one step.  The      *)
(* passive effects of a commit run later, as a step of their own           *)
(* (FlushEffects); an interval callback may fire before they have run, and *)
(* then they run ahead of the render of that tick, on the values of the    *)
(* commit they belong to.  jump is called with the values of the latest    *)
(* commit (the onClick binding).  Several ticks batched into one render    *)
(* are not modelled.                                                       *)
(*                                                                         *)
(* Units.  Horizontal quantities are pixels.  Vertical quantities (y,      *)
(* velocity, heights) are tenths of a pixel, so that GRAVITY = 0.4 and the *)
(* halves produced by gameHeight / 2 are integers; Px converts.  The       *)
(* arithmetic is exact, where the program's is floating point.             *)
(* Math.random() is a draw k from Draws standing for the value k / 10.     *)
(***************************************************************************)
EXTENDS Integers, Sequences, FiniteSets, TLC

\* ------------------------------------------------------------------------
\* Program constants (page.js lines 9-15), vertical ones in tenths of a pixel
\* ------------------------------------------------------------------------
Px(n) == n * 10

BIRD_WIDTH == 40
BIRD_HEIGHT == 300
PIPE_WIDTH == 60
PIPE_GAP == 2000
GRAVITY == 4
JUMP_FORCE == -70
PIPE_SPEED == 2
BIRD_START_X == 100
SPAWN_THRESHOLD == 250

\* ------------------------------------------------------------------------
\* Bounds of the model: the user jumps only during the first JumpUntil ticks
\* of a run (so every run ends), the window is resized only before tick
\* ResizeUntil + 1 of a run and at most MaxResizes times, and the game is
\* reset at most MaxResets times
\* ------------------------------------------------------------------------
JumpUntil == 1
MaxResets == 1
MaxResizes == 1
ResizeUntil == 0

\* <<window.innerWidth, window.innerHeight>> values the environment may report
WindowSizes == {<<60, 600>>, <<400, 700>>}
\* Math.random() results, in tenths: 0.0, 0.5, 0.9
Draws == {0, 5, 9}
\* what localStorage may hold under "flappyHighScore" at startup
\* (a missing item, text that is not a number, or a decimal string)
NoItem == [kind |-> "none", val |-> 0]
Junk == [kind |-> "junk", val |-> 0]
NumberString(n) == [kind |-> "num", val |-> n]
StoredAtStart == {NoItem, Junk, NumberString(1)}

VARIABLES
    bird,          \* [x, y, velocity]
    pipes,         \* sequence of [x, topHeight, bottomHeight, passed, id]
    gameStarted,
    gameOver,
    score,
    highScore,
    gameWidth,     \* pixels
    gameHeight,    \* pixels
    stored,        \* localStorage item "flappyHighScore"
    loop,          \* the interval of the game-loop effect: [on, w, h]
    fxPending,     \* passive effects of the latest commit have not run yet
    ticks,         \* ticks delivered in this run (bounds the model)
    resets,        \* resets so far (bounds the model)
    resizes,       \* resize events so far (bounds the model)
    nextId,        \* history: number of pipes created in this run
    last           \* history: the operation that produced this state

vars == <<bird, pipes, gameStarted, gameOver, score, highScore, gameWidth,
          gameHeight, stored, loop, fxPending, ticks, resets, resizes,
          nextId, last>>

\* ------------------------------------------------------------------------
\* Pure helpers
\* ------------------------------------------------------------------------

\* parseInt(localStorage.getItem(..) || "0"), NaN mapped to 0
LoadHighScore(item) ==
    IF item.kind = "num" THEN item.val ELSE 0

\* mutant of RandomTop: the + 50 margin is forgotten
RandomTopNoMargin(h, k) == k * (h - 300)

\* Math.random() * (gameHeight - PIPE_GAP - 100) + 50, for the draw k / 10
RandomTop(h, k) == k * (h - 300) + Px(50)

\* mutant of NewPipe: the pipe is placed beyond the right edge
NewPipePastEdge(w, h, k, id) ==
    [x |-> w + PIPE_WIDTH,
     topHeight |-> RandomTop(h, k),
     bottomHeight |-> Px(h) - RandomTop(h, k) - PIPE_GAP,
     passed |-> FALSE,
     id |-> id]

\* mutant of NewPipe: bottomHeight forgets the gap
NewPipeNoGap(w, h, k, id) ==
    [x |-> w,
     topHeight |-> RandomTop(h, k),
     bottomHeight |-> Px(h) - RandomTop(h, k),
     passed |-> FALSE,
     id |-> id]

\* the pipe literal built by jump and by the spawn branch of the game loop
NewPipe(w, h, k, id) ==
    [x |-> w,
     topHeight |-> RandomTop(h, k),
     bottomHeight |-> Px(h) - RandomTop(h, k) - PIPE_GAP,
     passed |-> FALSE,
     id |-> id]

\* mutant of OutOfBounds: the bounds themselves are allowed
OutOfBoundsStrict(b, h) ==
    LET newY == b.y + b.velocity
    IN  newY < 0 \/ newY > Px(h) - BIRD_HEIGHT

\* setBird updater of the game loop: [bird, out] for the closure height h
OutOfBounds(b, h) ==
    LET newY == b.y + b.velocity
    IN  newY <= 0 \/ newY >= Px(h) - BIRD_HEIGHT

\* mutant of MoveBird: an out-of-bounds bird is clamped to the bound
MoveBirdClamps(b, h) ==
    LET newY == b.y + b.velocity
        newVelocity == b.velocity + GRAVITY
    IN  IF newY <= 0 THEN [b EXCEPT !.y = 0, !.velocity = 0]
        ELSE IF newY >= Px(h) - BIRD_HEIGHT
             THEN [b EXCEPT !.y = Px(h) - BIRD_HEIGHT, !.velocity = 0]
             ELSE [b EXCEPT !.y = newY, !.velocity = newVelocity]

\* mutant of MoveBird: the new velocity is used for the new position
MoveBirdNewVelocityFirst(b, h) ==
    LET newVelocity == b.velocity + GRAVITY
        newY == b.y + newVelocity
    IN  IF OutOfBounds(b, h) THEN b
        ELSE [b EXCEPT !.y = newY, !.velocity = newVelocity]

MoveBird(b, h) ==
    LET newY == b.y + b.velocity
        newVelocity == b.velocity + GRAVITY
    IN  IF OutOfBounds(b, h) THEN b
        ELSE [b EXCEPT !.y = newY, !.velocity = newVelocity]

\* setPipes updater of the game loop, map and filter
ShiftPipes(prev) ==
    [i \in 1..Len(prev) |-> [prev[i] EXCEPT !.x = @ - PIPE_SPEED]]

OnScreen(pipe) == pipe.x > -PIPE_WIDTH

FilterPipes(ps) == SelectSeq(ps, OnScreen)

\* mutant of NeedsSpawn: a last pipe at the threshold itself spawns
NeedsSpawnAtThreshold(ps, w) ==
    Len(ps) = 0 \/ ps[Len(ps)].x <= w - SPAWN_THRESHOLD

\* mutant of NeedsSpawn: the empty sequence is not tested
NeedsSpawnIgnoresEmpty(ps, w) ==
    Len(ps) > 0 /\ ps[Len(ps)].x < w - SPAWN_THRESHOLD

NeedsSpawn(ps, w) ==
    Len(ps) = 0 \/ ps[Len(ps)].x < w - SPAWN_THRESHOLD

\* mutant of MovePipes: the new pipe is put in front (unshift for push)
MovePipesUnshift(prev, w, h, k, id) ==
    LET newPipes == FilterPipes(ShiftPipes(prev))
    IN  IF NeedsSpawn(newPipes, w)
        THEN << NewPipe(w, h, k, id) >> \o newPipes
        ELSE newPipes

MovePipes(prev, w, h, k, id) ==
    LET newPipes == FilterPipes(ShiftPipes(prev))
    IN  IF NeedsSpawn(newPipes, w)
        THEN Append(newPipes, NewPipe(w, h, k, id))
        ELSE newPipes

\* collision predicate of checkCollisions
Collides(b, pipe, h) ==
    /\ b.x + BIRD_WIDTH > pipe.x
    /\ b.x < pipe.x + PIPE_WIDTH
    /\ \/ b.y < pipe.topHeight
       \/ b.y + BIRD_HEIGHT > Px(h) - pipe.bottomHeight

\* mutant of JustPassed: the bird's right edge is compared
JustPassedByRightEdge(b, pipe) ==
    ~pipe.passed /\ b.x + BIRD_WIDTH > pipe.x + PIPE_WIDTH

\* scoring predicate of checkCollisions
JustPassed(b, pipe) == ~pipe.passed /\ b.x > pipe.x + PIPE_WIDTH

\* mutant of ScanPipes: newlyPassed is set to 1 instead of incremented
RECURSIVE ScanPipesCountsOne(_, _, _, _, _)
ScanPipesCountsOne(b, ps, h, i, acc) ==
    IF i > Len(ps) THEN acc
    ELSE IF Collides(b, ps[i], h)
         THEN [acc EXCEPT !.collided = TRUE]
         ELSE IF JustPassed(b, ps[i])
              THEN ScanPipesCountsOne(b, ps, h, i + 1,
                       [acc EXCEPT !.newPipes[i].passed = TRUE,
                                   !.newlyPassed = 1])
              ELSE ScanPipesCountsOne(b, ps, h, i + 1, acc)

\* the for loop of checkCollisions from index i on: it stops at the first
\* colliding pipe, and marks and counts the pipes it visits before that
RECURSIVE ScanPipes(_, _, _, _, _)
ScanPipes(b, ps, h, i, acc) ==
    IF i > Len(ps) THEN acc
    ELSE IF Collides(b, ps[i], h)
         THEN [acc EXCEPT !.collided = TRUE]
         ELSE IF JustPassed(b, ps[i])
              THEN ScanPipes(b, ps, h, i + 1,
                       [acc EXCEPT !.newPipes[i].passed = TRUE,
                                   !.newlyPassed = @ + 1])
              ELSE ScanPipes(b, ps, h, i + 1, acc)

\* checkCollisions on the values of one render: what it decides to write
CheckCollisions(b, ps, h) ==
    ScanPipes(b, ps, h, 1,
              [collided |-> FALSE, newPipes |-> ps, newlyPassed |-> 0])

\* the collision effect for a render: the early return, then checkCollisions
NoWrites(ps) == [collided |-> FALSE, newPipes |-> ps, newlyPassed |-> 0]

CollisionEffect(started, over, b, ps, h) ==
    IF ~started \/ over THEN NoWrites(ps) ELSE CheckCollisions(b, ps, h)

\* mutant of LoopFor: the guard of the game-loop effect is inverted
LoopForNever(started, over, w, h) == [on |-> FALSE, w |-> 0, h |-> 0]

\* the game-loop effect for a render: an interval exists only while running,
\* and its callback closes over the render's gameWidth and gameHeight
LoopFor(started, over, w, h) ==
    IF ~started \/ over THEN [on |-> FALSE, w |-> 0, h |-> 0]
    ELSE [on |-> TRUE, w |-> w, h |-> h]

\* mutant of NewHighScore: the score before the increment is compared
NewHighScoreComparesOld(newScore, hs) ==
    IF newScore - 1 > hs THEN newScore ELSE hs

\* mutant of NewHighScore: the comparison with the high score is missing
NewHighScoreFollowsScore(newScore, hs) == newScore

\* the setScore updater: new score, and the high score written through
NewHighScore(newScore, hs) == IF newScore > hs THEN newScore ELSE hs

\* mutant of NewStored: localStorage.setItem is forgotten
NewStoredNever(newScore, hs, item) == item

\* localStorage.setItem inside the setScore updater
NewStored(newScore, hs, item) ==
    IF newScore > hs THEN NumberString(newScore) ELSE item

Running == gameStarted /\ ~gameOver
Idle == ~gameStarted
Over == gameOver

\* ------------------------------------------------------------------------
\* Initial state: the first render's useState values after the mount effect
\* ------------------------------------------------------------------------
Init ==
    /\ \E size \in WindowSizes :
         /\ gameWidth = size[1]
         /\ gameHeight = size[2]
    /\ bird = [x |-> BIRD_START_X, y |-> Px(gameHeight) \div 2, velocity |-> 0]
    /\ pipes = << >>
    /\ gameStarted = FALSE
    /\ gameOver = FALSE
    /\ score = 0
    /\ stored \in StoredAtStart
    /\ highScore = LoadHighScore(stored)
    /\ loop = LoopFor(FALSE, FALSE, 0, 0)
    /\ fxPending = FALSE
    /\ ticks = 0
    /\ resets = 0
    /\ resizes = 0
    /\ nextId = 0
    /\ last = "init"

\* ------------------------------------------------------------------------
\* Operations
\* ------------------------------------------------------------------------

\* mutant of EffectPipes: the pass forgets setPipes(newPipes)
EffectPipesKeepsOld(e, ps) == ps

\* the writes of the collision effect e applied on top of pipes value ps
EffectPipes(e, ps) ==
    IF ~e.collided /\ e.newlyPassed > 0 THEN e.newPipes ELSE ps

\* mutant of EffectScore: the pipes counted before a collision still score
EffectScoreDespiteCollision(e) ==
    IF e.newlyPassed > 0 THEN score + e.newlyPassed ELSE score

EffectScore(e) ==
    IF ~e.collided /\ e.newlyPassed > 0 THEN score + e.newlyPassed ELSE score

EffectWrote(e) == e.collided \/ e.newlyPassed > 0

\* mutant of JumpBird: the impulse is added to the velocity
JumpBirdAdds(b) == [b EXCEPT !.velocity = @ + JUMP_FORCE]

\* the setBird updater of jump
JumpBird(b) == [b EXCEPT !.velocity = JUMP_FORCE]

\* mutant of Jump: the gameOver early return is missing
JumpIgnoresOver ==
    /\ IF ~gameStarted
       THEN \E k \in Draws :
              /\ gameStarted' = TRUE
              /\ pipes' = << NewPipe(gameWidth, gameHeight, k, nextId) >>
              /\ nextId' = nextId + 1
              /\ bird' = bird
              /\ last' = "start"
       ELSE /\ gameOver \/ ticks <= JumpUntil
            /\ bird' = JumpBird(bird)
            /\ UNCHANGED <<gameStarted, pipes, nextId>>
            /\ last' = IF gameOver THEN "jumpOver" ELSE "jump"
    /\ fxPending' = TRUE
    /\ UNCHANGED <<gameOver, score, highScore, gameWidth, gameHeight, stored,
                   loop, ticks, resets, resizes>>

\* jump(): the click / Space handler, with the values of the latest commit.
\* While running, the user may jump during the first JumpUntil ticks.
Jump ==
    /\ IF ~gameStarted
       THEN \E k \in Draws :
              /\ gameStarted' = TRUE
              /\ pipes' = << NewPipe(gameWidth, gameHeight, k, nextId) >>
              /\ nextId' = nextId + 1
              /\ bird' = bird
              /\ last' = "start"
       ELSE IF gameOver
            THEN /\ UNCHANGED <<gameStarted, pipes, nextId, bird>>
                 /\ last' = "jumpOver"
            ELSE /\ ticks <= JumpUntil
                 /\ bird' = JumpBird(bird)
                 /\ UNCHANGED <<gameStarted, pipes, nextId>>
                 /\ last' = "jump"
    /\ fxPending' = (fxPending \/ ~(gameStarted /\ gameOver))
    /\ UNCHANGED <<gameOver, score, highScore, gameWidth, gameHeight, stored,
                   loop, ticks, resets, resizes>>

\* mutant of ResetGame: the high score is cleared with the score
ResetGameClearsHighScore ==
    /\ gameOver
    /\ resets < MaxResets
    /\ bird' = [x |-> BIRD_START_X, y |-> Px(gameHeight) \div 2, velocity |-> 0]
    /\ pipes' = << >>
    /\ gameStarted' = FALSE
    /\ gameOver' = FALSE
    /\ score' = 0
    /\ highScore' = 0
    /\ fxPending' = TRUE
    /\ ticks' = 0
    /\ resets' = resets + 1
    /\ nextId' = 0
    /\ last' = "reset"
    /\ loop' = IF fxPending
               THEN LoopFor(gameStarted, gameOver, gameWidth, gameHeight)
               ELSE loop
    /\ UNCHANGED <<gameWidth, gameHeight, stored, resizes>>

\* resetGame(): the Play Again button, rendered only while gameOver.  The
\* click is rendered synchronously, and passive effects still pending are
\* run before that render: the interval of a finished run is cleared.
ResetGame ==
    /\ gameOver
    /\ resets < MaxResets
    /\ bird' = [x |-> BIRD_START_X, y |-> Px(gameHeight) \div 2, velocity |-> 0]
    /\ pipes' = << >>
    /\ gameStarted' = FALSE
    /\ gameOver' = FALSE
    /\ score' = 0
    /\ fxPending' = TRUE
    /\ ticks' = 0
    /\ resets' = resets + 1
    /\ nextId' = 0
    /\ last' = "reset"
    /\ loop' = IF fxPending
               THEN LoopFor(gameStarted, gameOver, gameWidth, gameHeight)
               ELSE loop
    /\ UNCHANGED <<highScore, gameWidth, gameHeight, stored, resizes>>

\* handleResize: the window reports a new size (during the first
\* ResizeUntil ticks of a run)
HandleResize ==
    /\ resizes < MaxResizes
    /\ ticks <= ResizeUntil
    /\ \E size \in WindowSizes :
         /\ size # <<gameWidth, gameHeight>>
         /\ gameWidth' = size[1]
         /\ gameHeight' = size[2]
    /\ fxPending' = TRUE
    /\ resizes' = resizes + 1
    /\ last' = "resize"
    /\ UNCHANGED <<bird, pipes, gameStarted, gameOver, score, highScore,
                   stored, loop, ticks, resets, nextId>>

\* the passive effects of the latest commit run: the game-loop effect
\* replaces the interval, the collision effect runs checkCollisions
FlushEffects ==
    /\ fxPending
    /\ LET e == CollisionEffect(gameStarted, gameOver, bird, pipes, gameHeight)
       IN  /\ gameOver' = (gameOver \/ e.collided)
           /\ pipes' = EffectPipes(e, pipes)
           /\ score' = EffectScore(e)
           /\ highScore' = NewHighScore(EffectScore(e), highScore)
           /\ stored' = NewStored(EffectScore(e), highScore, stored)
           /\ fxPending' = EffectWrote(e)
           /\ last' = IF e.collided THEN "hit"
                      ELSE IF e.newlyPassed > 0 THEN "scored" ELSE "checked"
    /\ loop' = LoopFor(gameStarted, gameOver, gameWidth, gameHeight)
    /\ UNCHANGED <<bird, gameStarted, gameWidth, gameHeight, ticks, resets,
                   resizes, nextId>>

\* the interval callback fires.  Its two updaters are queued; if the passive
\* effects of the latest commit are still pending they run before the next
\* render, on the values of that commit, and their writes are queued behind
\* the tick's: a setPipes(newPipes) of the collision effect then replaces
\* the pipes the tick's updater computed.
Tick ==
    /\ loop.on
    /\ \E k \in Draws :
         LET e == IF fxPending
                  THEN CollisionEffect(gameStarted, gameOver, bird, pipes,
                                       gameHeight)
                  ELSE NoWrites(pipes)
             moved == MovePipes(pipes, loop.w, loop.h, k, nextId)
         IN  /\ bird' = MoveBird(bird, loop.h)
             /\ gameOver' = (gameOver \/ OutOfBounds(bird, loop.h) \/ e.collided)
             /\ pipes' = EffectPipes(e, moved)
             /\ nextId' = IF Len(moved) > 0 /\ moved[Len(moved)].id = nextId
                          THEN nextId + 1 ELSE nextId
             /\ score' = EffectScore(e)
             /\ highScore' = NewHighScore(EffectScore(e), highScore)
             /\ stored' = NewStored(EffectScore(e), highScore, stored)
    /\ loop' = IF fxPending
               THEN LoopFor(gameStarted, gameOver, gameWidth, gameHeight)
               ELSE loop
    /\ fxPending' = TRUE
    /\ ticks' = ticks + 1
    /\ last' = "tick"
    /\ UNCHANGED <<gameStarted, gameWidth, gameHeight, resets, resizes>>

Next == Jump \/ ResetGame \/ HandleResize \/ FlushEffects \/ Tick

Spec == Init /\ [][Next]_vars

\* ------------------------------------------------------------------------
\* Vocabulary of the properties
\* ------------------------------------------------------------------------
JumpStep == last' \in {"start", "jump", "jumpOver"}
TickStep == last' = "tick"
ResetStep == last' = "reset"

\* a step in which checkCollisions ran on the values of the current state:
\* the passive effects ran alone, or ahead of the render of a tick
PassStep ==
    /\ gameStarted /\ ~gameOver
    /\ \/ last' \in {"hit", "scored", "checked"}
       \/ TickStep /\ fxPending

\* indices of the pipes the pass newly counts
NewlyPassed == {i \in 1..Len(pipes) : JustPassed(bird, pipes[i])}

PassCollides == \E i \in 1..Len(pipes) : Collides(bird, pipes[i], gameHeight)

\* the pipes of the next state that the step created
Created == {pipes'[i] : i \in {j \in 1..Len(pipes') : pipes'[j].id >= nextId}}

\* the playfield height the creating operation reads: jump reads the
\* render's gameHeight, the interval callback its closure's
CreationHeight == IF gameStarted THEN loop.h ELSE gameHeight

CreationWidth == IF gameStarted THEN loop.w ELSE gameWidth

StartBird(h) == [x |-> BIRD_START_X, y |-> Px(h) \div 2, velocity |-> 0]

\* ------------------------------------------------------------------------
\* C1: exactly one of Idle, Running, Over holds in every state (gameOver is
\* never true while gameStarted is false), and a tick delivered while the
\* state is Idle or Over changes none of bird, pipes, score, high score.
\* ------------------------------------------------------------------------
C1_OneStateAndTicksOnlyWhileRunning ==
    [][/\ (gameOver' => gameStarted')
       /\ (TickStep /\ ~Running) =>
              /\ bird' = bird
              /\ pipes' = pipes
              /\ score' = score
              /\ highScore' = highScore]_vars

\* the part of C1 the code keeps: gameOver implies gameStarted
C1_OverImpliesStarted == gameOver => gameStarted

\* ------------------------------------------------------------------------
\* C2: once the state is Over, nothing changes bird, pipes or score until
\* reset, and no tick runs between entering Over and reset.
\* ------------------------------------------------------------------------
C2_FrozenWhileOver ==
    [][gameOver =>
          /\ ~TickStep
          /\ gameOver' => (bird' = bird /\ pipes' = pipes /\ score' = score)]_vars

\* ------------------------------------------------------------------------
\* C3: a jump in Idle with playfield W x H gives Running with exactly one
\* pipe: x = W, passed = false, topHeight in [50, H - 250), bottomHeight =
\* H - topHeight - 200; bird and score are unchanged.
\* ------------------------------------------------------------------------
C3_FirstJump ==
    [][(Idle /\ JumpStep) =>
          /\ gameStarted' /\ ~gameOver'
          /\ Len(pipes') = 1
          /\ pipes'[1].x = gameWidth
          /\ pipes'[1].passed = FALSE
          /\ pipes'[1].topHeight >= Px(50)
          /\ pipes'[1].topHeight < Px(gameHeight - 250)
          /\ pipes'[1].bottomHeight =
                 Px(gameHeight) - pipes'[1].topHeight - Px(200)
          /\ bird' = bird
          /\ score' = score]_vars

C3_Witness ==
    /\ last = "start"
    /\ Running
    /\ Len(pipes) = 1
    /\ pipes[1].x = gameWidth

\* ------------------------------------------------------------------------
\* C4 as stated: every pipe created by the first jump or by the per-tick
\* spawn has 50 <= topHeight <= playfieldHeight - 300.
\* ------------------------------------------------------------------------
C4_TopHeightAtMostHeightMinus300 ==
    [][\A p \in Created :
          /\ p.topHeight >= Px(50)
          /\ p.topHeight <= Px(CreationHeight - 300)]_vars

\* C4 as amended: every pipe created by the first jump or by the per-tick
\* spawn has 50 <= topHeight < playfieldHeight - 250
C4_TopHeightBelowHeightMinus250 ==
    [][\A p \in Created :
          /\ p.topHeight >= Px(50)
          /\ p.topHeight < Px(CreationHeight - 250)]_vars

\* a pipe spawned by a tick whose topHeight is above playfieldHeight - 300
C4_Witness ==
    \E i \in 1..Len(pipes) :
        /\ pipes[i].id > 0
        /\ last = "tick"
        /\ pipes[i].x = gameWidth
        /\ pipes[i].topHeight > Px(gameHeight - 300)

\* ------------------------------------------------------------------------
\* C5: every pipe created by the first jump or by the per-tick spawn has
\* topHeight + gapSize + bottomHeight equal to the playfield height its
\* creating operation was given, for every draw, and passed = false.
\* ------------------------------------------------------------------------
C5_GapInvariantAtCreation ==
    [][\A p \in Created :
          /\ p.topHeight + PIPE_GAP + p.bottomHeight = Px(CreationHeight)
          /\ p.passed = FALSE]_vars

\* a pipe spawned by a tick is the newest pipe, beside an older one
C5_Witness ==
    /\ last = "tick"
    /\ Len(pipes) >= 2
    /\ pipes[Len(pipes)].id > 0
    /\ pipes[Len(pipes)].x = gameWidth

\* ------------------------------------------------------------------------
\* C6: a jump in Running sets the velocity to -7 and changes nothing else;
\* no other operation than a tick or a reset changes the bird before the
\* next tick, and that tick computes newY = y + (-7), committing it with
\* velocity -7 + gravity unless newY is out of bounds.
\* ------------------------------------------------------------------------
C6_RunningJump ==
    [][/\ (Running /\ JumpStep) =>
              /\ bird' = [bird EXCEPT !.velocity = JUMP_FORCE]
              /\ pipes' = pipes
              /\ score' = score
              /\ highScore' = highScore
              /\ stored' = stored
              /\ gameStarted' = gameStarted
              /\ gameOver' = gameOver
       /\ (~JumpStep /\ ~TickStep /\ ~ResetStep) => bird' = bird
       /\ (TickStep /\ bird.velocity = JUMP_FORCE) =>
              IF \/ bird.y + JUMP_FORCE <= 0
                 \/ bird.y + JUMP_FORCE >= Px(loop.h) - BIRD_HEIGHT
              THEN bird' = bird /\ gameOver'
              ELSE /\ bird'.y = bird.y + JUMP_FORCE
                   /\ bird'.velocity = JUMP_FORCE + GRAVITY
                   /\ bird'.x = bird.x]_vars

\* the tick after a jump has run
C6_Witness ==
    /\ last = "tick"
    /\ Running
    /\ bird.velocity = JUMP_FORCE + GRAVITY

C8_Reset ==
    [][/\ ResetStep =>
              /\ gameOver
              /\ ~gameStarted' /\ ~gameOver'
              /\ bird' = StartBird(gameHeight)
              /\ pipes' = << >>
              /\ score' = 0
              /\ highScore' = highScore
              /\ stored' = stored
       /\ (last = "reset" /\ JumpStep) =>
              /\ gameStarted' /\ ~gameOver'
              /\ Len(pipes') = 1
              /\ pipes'[1].x = gameWidth
              /\ pipes'[1].passed = FALSE
              /\ bird' = StartBird(gameHeight)
              /\ score' = 0]_vars

\* a run started after a reset that kept a positive high score
C8_Witness ==
    /\ last = "start"
    /\ resets > 0
    /\ highScore > 0
    /\ score = 0

\* ------------------------------------------------------------------------
\* C9: a pipe's passed flag never goes back to false, and it becomes true
\* only in a collision / scoring pass in which bird.x > pipe.x + pipeWidth.
\* ------------------------------------------------------------------------
C9_PassedOnce ==
    [][\A i \in 1..Len(pipes) : \A j \in 1..Len(pipes') :
          pipes[i].id = pipes'[j].id /\ ~ResetStep /\ ~(Idle /\ JumpStep) =>
              /\ pipes[i].passed => pipes'[j].passed
              /\ (~pipes[i].passed /\ pipes'[j].passed) =>
                     /\ PassStep
                     /\ bird.x > pipes[i].x + PIPE_WIDTH]_vars

\* a pipe marked passed that a later tick has moved on
C9_Witness ==
    /\ last = "tick"
    /\ \E i \in 1..Len(pipes) : pipes[i].passed /\ pipes[i].x < 0

\* ------------------------------------------------------------------------
\* checkCollisions as a function of its inputs: the pass applied to a bird
\* and up to MaxPassPipes pipes placed anywhere around the bird (a skipped
\* tick can leave several pipes behind the bird before a pass sees them)
\* ------------------------------------------------------------------------
MaxPassPipes == 2

PassXs == {-30, 39, 40, 100}
PassYs == {Px(10), Px(300)}

PassPipe(x, k, passed) ==
    [NewPipe(x, 600, k, 0) EXCEPT !.passed = passed]

PassPipeSet == {PassPipe(x, k, f) : x \in PassXs, k \in Draws, f \in BOOLEAN}

PassPipeSeqs ==
    UNION {[1..n -> PassPipeSet] : n \in 0..MaxPassPipes}

PassInit ==
    /\ gameWidth = 400
    /\ gameHeight = 600
    /\ \E y \in PassYs : bird = [x |-> BIRD_START_X, y |-> y, velocity |-> 0]
    /\ \E ps \in PassPipeSeqs :
         pipes = [i \in 1..Len(ps) |-> [ps[i] EXCEPT !.id = i - 1]]
    /\ gameStarted = TRUE
    /\ gameOver = FALSE
    /\ score \in {0, 1}
    /\ highScore \in {score, 2}
    /\ stored = NumberString(highScore)
    /\ loop = LoopFor(TRUE, FALSE, 400, 600)
    /\ fxPending = TRUE
    /\ ticks = 0
    /\ resets = 0
    /\ resizes = 0
    /\ nextId = Len(pipes)
    /\ last = "tick"

PassSpec == PassInit /\ [][FlushEffects]_vars

\* ------------------------------------------------------------------------
\* C10: a pass that finds no collision adds to the score exactly the number
\* of pipes not yet passed with bird.x > pipe.x + pipeWidth and marks them
\* all passed: two such pipes add exactly 2, none leaves the score as it is.
\* ------------------------------------------------------------------------
C10_ScoreCountsNewlyPassed ==
    [][(PassStep /\ ~PassCollides) =>
          /\ score' = score + Cardinality(NewlyPassed)
          /\ \A i \in NewlyPassed : pipes'[i].passed
          /\ Cardinality(NewlyPassed) = 2 => score' = score + 2
          /\ NewlyPassed = {} => score' = score]_vars

\* a pass has counted two pipes at once (the score starts at 0 or 1)
C10_Witness ==
    /\ last = "scored"
    /\ score = 3
    /\ Len(pipes) = 2
    /\ pipes[1].passed /\ pipes[2].passed

\* ------------------------------------------------------------------------
\* Vocabulary of C11..C20
\* ------------------------------------------------------------------------
PassedCount(ps) == Cardinality({i \in 1..Len(ps) : ps[i].passed})

Ids(ps) == {ps[i].id : i \in 1..Len(ps)}

\* the passed pipes of this state that the step drops from the sequence
RemovedPassed ==
    {i \in 1..Len(pipes) : pipes[i].passed /\ pipes[i].id \notin Ids(pipes')}

\* ------------------------------------------------------------------------
\* C11 as stated: after any number of ticks, the score equals the count of
\* pipes in the sequence with passed = true.
\* ------------------------------------------------------------------------
C11_ScoreEqualsPassedCount == score = PassedCount(pipes)

\* C11 as amended: the score equals the count of pipes with passed = true in
\* the sequence plus the passed pipes the off-screen filter has removed in
\* this run: the score is never below the count, and score minus count
\* grows in a step by exactly the passed pipes that step removes.
C11_ScoreCountsPassedAndRemoved ==
    [][/\ score >= PassedCount(pipes)
       /\ score' >= PassedCount(pipes')
       /\ IF ResetStep
          THEN score' = 0 /\ PassedCount(pipes') = 0
          ELSE score' - PassedCount(pipes') =
                   score - PassedCount(pipes) + Cardinality(RemovedPassed)]_vars

\* a tick has removed a passed pipe: the score is above the count
C11_Witness ==
    /\ last = "tick"
    /\ score = 1
    /\ Len(pipes) > 0
    /\ PassedCount(pipes) = 0

\* ------------------------------------------------------------------------
\* C12: after the startup load no jump, tick, collision / scoring pass or
\* reset lowers the high score; reset leaves it as it is.
\* ------------------------------------------------------------------------
C12_HighScoreNeverDecreases ==
    [][/\ highScore' >= highScore
       /\ ResetStep => highScore' = highScore]_vars

\* a reset with a positive high score on record
C12_Witness ==
    /\ last = "reset"
    /\ highScore = 1
    /\ stored = NumberString(1)
    /\ score = 0

\* ------------------------------------------------------------------------
\* C13: a scoring step whose score exceeds the high score sets the high
\* score to that score and saves the same value in the same step; nothing
\* else saves, so the persisted value as load reads it (missing or
\* malformed read as 0) always equals the high score.
\* ------------------------------------------------------------------------
C13_WriteThrough ==
    [][/\ (PassStep /\ score' > score /\ score' > highScore) =>
              /\ highScore' = score'
              /\ stored' = NumberString(score')
       /\ stored' # stored =>
              /\ PassStep
              /\ score' > score
              /\ score' > highScore
       /\ LoadHighScore(stored) = highScore
       /\ LoadHighScore(stored') = highScore']_vars

\* a scoring pass has just saved a new high score
C13_Witness ==
    /\ last = "scored"
    /\ score = 1
    /\ highScore = score
    /\ stored = NumberString(score)

\* ------------------------------------------------------------------------
\* C14: every collision / scoring pass evaluates a bird and pipes advanced
\* by the same ticks: a tick whose result a pass will evaluate (the state
\* after it is Running) has advanced the bird and has shifted every pipe it
\* keeps, never the bird alone or the pipes alone.
\* ------------------------------------------------------------------------
C14_PassSeesBirdAndPipesOfSameTick ==
    [][(TickStep /\ ~gameOver') =>
          /\ bird'.y = bird.y + bird.velocity
          /\ \A i \in 1..Len(pipes) : \A j \in 1..Len(pipes') :
                 pipes[i].id = pipes'[j].id =>
                     pipes'[j].x = pipes[i].x - PIPE_SPEED]_vars

\* ------------------------------------------------------------------------
\* C15: a Running tick whose newY = y + velocity has
\* 0 < newY < playfieldHeight - birdHeight commits y' = y + velocity (the
\* velocity of before the tick), velocity' = velocity + gravity, and leaves
\* bird.x unchanged.  The playfield height is the one the tick reads.
\* ------------------------------------------------------------------------
C15_TickInBounds ==
    [][(TickStep /\ Running
          /\ bird.y + bird.velocity > 0
          /\ bird.y + bird.velocity < Px(loop.h) - BIRD_HEIGHT) =>
              /\ bird'.y = bird.y + bird.velocity
              /\ bird'.velocity = bird.velocity + GRAVITY
              /\ bird'.x = bird.x]_vars

\* the second tick of a run without a jump: the bird has moved by the
\* velocity the first tick left
C15_Witness ==
    /\ last = "tick"
    /\ Running
    /\ ticks = 2
    /\ bird.velocity = 2 * GRAVITY
    /\ bird.y = Px(gameHeight) \div 2 + GRAVITY
    /\ bird.x = BIRD_START_X

\* ------------------------------------------------------------------------
\* The setBird updater of the game loop as a function of its input: ticks
\* delivered to a running game whose bird is anywhere between ceiling and
\* floor with any velocity a run can produce (the pipe is far to the right)
\* ------------------------------------------------------------------------
BirdYs == {Px(1), 35, Px(300), Px(569), Px(570) - 4, Px(640)}
BirdVs == {JUMP_FORCE, -10, 0, GRAVITY, 100}
BirdHeights == {600, 700}

BirdInit ==
    /\ gameWidth = 400
    /\ gameHeight \in BirdHeights
    /\ \E y \in BirdYs : \E v \in BirdVs :
         /\ y < Px(gameHeight) - BIRD_HEIGHT
         /\ bird = [x |-> BIRD_START_X, y |-> y, velocity |-> v]
    /\ pipes = << NewPipe(gameWidth, gameHeight, 5, 0) >>
    /\ gameStarted = TRUE
    /\ gameOver = FALSE
    /\ score = 0
    /\ highScore = 0
    /\ stored = NoItem
    /\ loop = LoopFor(TRUE, FALSE, gameWidth, gameHeight)
    /\ fxPending = FALSE
    /\ ticks = 0
    /\ resets = 0
    /\ resizes = 0
    /\ nextId = 1
    /\ last = "checked"

BirdSpec == BirdInit /\ [][Tick]_vars

\* ------------------------------------------------------------------------
\* C16: a Running tick whose newY = y + velocity has newY <= 0 or
\* newY >= playfieldHeight - birdHeight moves the state to Over and leaves
\* the bird's y and velocity at their values of before the tick (no
\* clamping, no gravity): a bird at y = 1 with velocity -1 ends in Over with
\* y = 1 and velocity -1.
\* ------------------------------------------------------------------------
C16_TickOutOfBounds ==
    [][(TickStep /\ Running
          /\ \/ bird.y + bird.velocity <= 0
             \/ bird.y + bird.velocity >= Px(loop.h) - BIRD_HEIGHT) =>
              /\ gameOver'
              /\ gameStarted'
              /\ bird' = bird]_vars

\* the bird at y = 1, velocity -1 (newY = 0, on the ceiling bound) after
\* its tick: Over, with the values of before the tick
C16_Witness ==
    /\ last = "tick"
    /\ gameOver
    /\ ticks = 1
    /\ bird.y = Px(1)
    /\ bird.velocity = -10

\* ------------------------------------------------------------------------
\* C17: a collision / scoring pass while Running in which some pipe
\* overlaps the bird horizontally with the bird outside its gap enters Over
\* and changes neither the score, the high score nor any passed flag, also
\* when other pipes satisfy the pass condition; a pass in which no pipe
\* does so does not enter Over.
\* ------------------------------------------------------------------------
C17_CollisionSkipsScoring ==
    [][/\ (PassStep /\ PassCollides) =>
              /\ gameOver'
              /\ score' = score
              /\ highScore' = highScore
              /\ stored' = stored
              /\ \A i \in 1..Len(pipes) : \A j \in 1..Len(pipes') :
                     pipes[i].id = pipes'[j].id =>
                         pipes'[j].passed = pipes[i].passed
       /\ (PassStep /\ ~PassCollides /\ ~TickStep) => ~gameOver']_vars

\* a pass has hit the second pipe and left the first one, which the bird
\* has cleared, uncounted
C17_Witness ==
    /\ last = "hit"
    /\ gameOver
    /\ Len(pipes) = 2
    /\ ~pipes[1].passed
    /\ bird.x > pipes[1].x + PIPE_WIDTH
    /\ Collides(bird, pipes[2], gameHeight)

\* ------------------------------------------------------------------------
\* C18: each Running tick decreases the x of every pipe by the pipe speed
\* and then removes exactly the pipes whose shifted x is not greater than
\* -pipeWidth; the pipes it keeps stay in their order with topHeight,
\* bottomHeight and passed unchanged, and after the tick no pipe has
\* x <= -pipeWidth.
\* ------------------------------------------------------------------------
Survivors == {i \in 1..Len(pipes) : pipes[i].x - PIPE_SPEED > -PIPE_WIDTH}

C18_ShiftThenFilter ==
    [][(TickStep /\ Running) =>
          /\ \A i \in 1..Len(pipes) :
                 IF i \in Survivors
                 THEN \E j \in 1..Len(pipes') :
                          pipes'[j] = [pipes[i] EXCEPT !.x = @ - PIPE_SPEED]
                 ELSE pipes[i].id \notin Ids(pipes')
          /\ \A i1, i2 \in Survivors : \A j1, j2 \in 1..Len(pipes') :
                 (/\ i1 < i2
                  /\ pipes'[j1].id = pipes[i1].id
                  /\ pipes'[j2].id = pipes[i2].id) => j1 < j2
          /\ \A j \in 1..Len(pipes') : pipes'[j].x > -PIPE_WIDTH]_vars

\* the part of C18 the code keeps: no pipe of the sequence has
\* x <= -pipeWidth
C18_NoPipeOffScreen == \A i \in 1..Len(pipes) : pipes[i].x > -PIPE_WIDTH

\* ------------------------------------------------------------------------
\* A run in progress on playfields on which a pipe is cleared by the bird
\* (x reaches 38) in the tick before the next spawn falls due (the last
\* pipe reaches x < gameWidth - 250): the interval is live, the pipes are
\* where the ticks so far have brought them, 252 apart, the oldest either
\* about to be cleared or about to leave the playfield (and then counted),
\* and the bird is in the gap
\* ------------------------------------------------------------------------
GenSizes == {<<288, 600>>, <<540, 600>>}
GenXs == {-56, 40, 42, 44}
GenVs == {JUMP_FORCE, 0}
GenSpacing == SPAWN_THRESHOLD + PIPE_SPEED

RECURSIVE GenPipesFrom(_, _, _, _)
GenPipesFrom(w, h, x, id) ==
    IF x > w THEN << >>
    ELSE << [NewPipe(x, h, 5, id) EXCEPT
                !.passed = (BIRD_START_X > x + PIPE_WIDTH)] >>
         \o GenPipesFrom(w, h, x + GenSpacing, id + 1)

GenPipes(w, h, x) == GenPipesFrom(w, h, x, 0)

GenInit ==
    /\ \E size \in GenSizes :
         /\ gameWidth = size[1]
         /\ gameHeight = size[2]
    /\ \E v \in GenVs :
         bird = [x |-> BIRD_START_X, y |-> Px(gameHeight) \div 2, velocity |-> v]
    /\ \E x \in GenXs : pipes = GenPipes(gameWidth, gameHeight, x)
    /\ gameStarted = TRUE
    /\ gameOver = FALSE
    /\ score = PassedCount(pipes)
    /\ stored \in StoredAtStart
    /\ highScore = LoadHighScore(stored)
    /\ highScore >= score
    /\ loop = LoopFor(TRUE, FALSE, gameWidth, gameHeight)
    /\ fxPending = FALSE
    /\ ticks = 0
    /\ resets = 0
    /\ resizes = 0
    /\ nextId = Len(pipes)
    /\ last = "checked"

GenNext == Tick \/ FlushEffects \/ Jump

GenSpec == GenInit /\ [][GenNext]_vars

\* ------------------------------------------------------------------------
\* C19: in a Running tick, after shifting and filtering, exactly one new
\* pipe with x = playfieldWidth and passed = false is appended at the end
\* if the sequence is empty or its last pipe has x < playfieldWidth - 250,
\* and no pipe is appended otherwise; never more than one.
\* ------------------------------------------------------------------------
LastSurvivor == CHOOSE i \in Survivors : \A k \in Survivors : k <= i

SpawnDue ==
    \/ Survivors = {}
    \/ pipes[LastSurvivor].x - PIPE_SPEED < CreationWidth - SPAWN_THRESHOLD

C19_SpawnPolicy ==
    [][(TickStep /\ Running) =>
          /\ Cardinality(Created) = IF SpawnDue THEN 1 ELSE 0
          /\ SpawnDue =>
                 /\ Len(pipes') > 0
                 /\ pipes'[Len(pipes')].id = nextId
                 /\ pipes'[Len(pipes')].x = CreationWidth
                 /\ pipes'[Len(pipes')].passed = FALSE]_vars

\* ------------------------------------------------------------------------
\* C20: in every Running state, from the first jump on and after every tick
\* and every collision / scoring pass, the pipe sequence is not empty.
\* ------------------------------------------------------------------------
C20_NeverRunsDry == Running => Len(pipes) > 0

\* a tick has removed the only pipe and appended its successor
C20_Witness ==
    /\ last = "tick"
    /\ Running
    /\ Len(pipes) = 1
    /\ pipes[1].id = 1
    /\ pipes[1].x = gameWidth

\* ------------------------------------------------------------------------
\* C21: with the playfield width constant during a run, the horizontal
\* distance between any two consecutive pipes of the sequence is greater
\* than the spawn threshold 250 and at most 250 + pipe speed, in every
\* state, however ticks, jumps and collision / scoring passes interleave.
\* ------------------------------------------------------------------------
Gap(i) ==
    IF pipes[i + 1].x >= pipes[i].x
    THEN pipes[i + 1].x - pipes[i].x
    ELSE pipes[i].x - pipes[i + 1].x

C21_SpacingBounded ==
    \A i \in 1..(Len(pipes) - 1) :
        /\ Gap(i) > SPAWN_THRESHOLD
        /\ Gap(i) <= SPAWN_THRESHOLD + PIPE_SPEED

\* a tick of this run has appended a pipe behind the last one
C21_Witness ==
    /\ last = "tick"
    /\ Len(pipes) >= 2
    /\ pipes[Len(pipes)].x = gameWidth
    /\ pipes[Len(pipes)].id >= 2
    /\ Gap(Len(pipes) - 1) = SPAWN_THRESHOLD + PIPE_SPEED

\* ------------------------------------------------------------------------
\* C22 as stated: in every state the pipe sequence is ordered by descending
\* x, each pipe's x greater than the x of the pipe after it.
\* ------------------------------------------------------------------------
C22_DescendingX ==
    \A i \in 1..(Len(pipes) - 1) : pipes[i].x > pipes[i + 1].x

\* C22 as amended: in every state the pipe sequence is ordered by ascending
\* x, each pipe's x less than the x of the pipe after it (the oldest,
\* leftmost pipe first), and no step, the off-screen filter included,
\* changes the relative order of the pipes it keeps.
C22_AscendingX ==
    [][/\ \A i \in 1..(Len(pipes) - 1) : pipes[i].x < pipes[i + 1].x
       /\ \A i \in 1..(Len(pipes') - 1) : pipes'[i].x < pipes'[i + 1].x
       /\ \A i1, i2 \in 1..Len(pipes) : \A j1, j2 \in 1..Len(pipes') :
              (/\ i1 < i2
               /\ pipes'[j1].id = pipes[i1].id
               /\ pipes'[j2].id = pipes[i2].id) => j1 < j2]_vars

\* two pipes, the older one first and already counted, both moved on by
\* ticks since the newer one was appended
C22_Witness ==
    /\ last = "tick"
    /\ Len(pipes) = 2
    /\ pipes[1].id < pipes[2].id
    /\ pipes[1].passed
    /\ pipes[1].x < pipes[2].x
    /\ pipes[2].x < gameWidth

\* ------------------------------------------------------------------------
\* C23: in every state after the startup load the high score is greater
\* than or equal to the score, and both are non-negative integers (the
\* loaded value being non-negative).
\* ------------------------------------------------------------------------
C23_HighScoreAtLeastScore ==
    /\ score \in Nat
    /\ highScore \in Nat
    /\ highScore >= score

\* in a run after a reset the score has caught up with the high score
C23_Witness ==
    /\ last = "scored"
    /\ resets = 1
    /\ score = 1
    /\ highScore = score

\* ------------------------------------------------------------------------
\* C24: with the playfield height H constant (H > 2 * birdHeight), in every
\* state, Idle, Running or Over, the bird's y has 0 < y < H - birdHeight:
\* no tick commits a position on or beyond the ceiling or the floor, and
\* jump and reset never place the bird out of bounds.
\* ------------------------------------------------------------------------
C24_BirdInsideBounds ==
    resizes = 0 =>
        /\ bird.y > 0
        /\ bird.y < Px(gameHeight) - BIRD_HEIGHT

\* a tick has found the bird's next position on or below the floor bound
\* and has not committed it
C24_Witness ==
    /\ last = "tick"
    /\ gameOver
    /\ resizes = 0
    /\ bird.y + bird.velocity >= Px(gameHeight) - BIRD_HEIGHT
    /\ bird.y < Px(gameHeight) - BIRD_HEIGHT

\* ------------------------------------------------------------------------
\* A run in progress in which the interval keeps firing: setInterval
\* delivers the callback again and again for as long as the interval
\* exists.  The user stops jumping after the first JumpUntil ticks.
\* ------------------------------------------------------------------------
LiveSpec == GenInit /\ [][GenNext]_vars /\ WF_vars(Tick)

\* ------------------------------------------------------------------------
\* C25: from any Running state, if ticks keep being delivered and no
\* further jump occurs, the game eventually reaches Over.
\* ------------------------------------------------------------------------
C25_EventuallyOver == (gameStarted /\ ~gameOver) ~> gameOver

\* a run has ended on the floor bound, several ticks after the last jump
\* the user could make
C25_Witness ==
    /\ last = "tick"
    /\ gameStarted /\ gameOver
    /\ ticks > JumpUntil + 5
    /\ bird.velocity > 0
    /\ bird.y + bird.velocity >= Px(loop.h) - BIRD_HEIGHT

\* ------------------------------------------------------------------------
\* C26: the write of a collision / scoring pass to the pipe sequence
\* changes only passed flags.  Relative to the sequence current when the
\* write takes effect (the committed one, or the one a tick of the same
\* render has just computed) the number and order of the pipes and every
\* x, topHeight and bottomHeight are unchanged: no shift, removal or spawn
\* of a tick is undone or lost.
\* ------------------------------------------------------------------------
PassWritesPipes == PassStep /\ ~PassCollides /\ NewlyPassed # {}

C26_PassWritesOnlyPassedFlags ==
    [][PassWritesPipes =>
          IF TickStep
          THEN /\ \A i \in 1..Len(pipes) :
                      IF i \in Survivors
                      THEN \E j \in 1..Len(pipes') :
                               /\ pipes'[j].id = pipes[i].id
                               /\ pipes'[j].x = pipes[i].x - PIPE_SPEED
                               /\ pipes'[j].topHeight = pipes[i].topHeight
                               /\ pipes'[j].bottomHeight = pipes[i].bottomHeight
                      ELSE pipes[i].id \notin Ids(pipes')
               /\ Cardinality(Created) = IF SpawnDue THEN 1 ELSE 0
          ELSE /\ Len(pipes') = Len(pipes)
               /\ \A i \in 1..Len(pipes) :
                      pipes'[i] = [pipes[i] EXCEPT !.passed = pipes'[i].passed]]_vars

====
